---- MODULE Spec2Model ----
(***************************************************************************)
(* MeteorRoute fee router: the daily distribution engine.                  *)
(*                                                                         *)
(* The model follows programs/meteor-route-fee-router/src:                 *)
(*   state.rs                          ProgressPda, PolicyPda,             *)
(*                                     DistributionMath                    *)
(*   streamflow.rs                     the lock records                    *)
(*   instructions/distribute_fees.rs   the crank handler                   *)
(*                                                                         *)
(* A distribute transaction is submitted (Submit), executed by the ledger  *)
(* as one atomic handler run (Execute) and its outcome read back by the    *)
(* caller (Confirm).  A handler run that returns an error commits nothing: *)
(* the ledger rolls the whole transaction back.  The clock advances        *)
(* between transactions (Tick).                                            *)
(*                                                                         *)
(* Scope of the model: the transaction's account set is the vault's own    *)
(* (the Anchor account constraints and the key comparisons of              *)
(* distribute_fees.rs lines 148-186 pass), amounts are far below the u64   *)
(* range so the integer casts are the identity, and the build is the       *)
(* non-"local" one (stream recipients are validated).  ProgressPda's       *)
(* vault_seed, page_in_progress_flag and created_at are never read or      *)
(* written by the handler and are left out.                                *)
(***************************************************************************)
EXTENDS Integers, Sequences, FiniteSets, TLC

(***************************************************************************)
(* Program constants                                                       *)
(***************************************************************************)
SecondsPerDay == 86400

BpsDenominator == 10000

(***************************************************************************)
(* Bounds of the model                                                     *)
(***************************************************************************)
\* Clock ticks (of half a day each) after the starting time.
MaxTicks == 2

\* Committed distribute transactions.
MaxCalls == 2

TickStep == SecondsPerDay \div 2

StartTime == SecondsPerDay

Min(a, b) == IF a <= b THEN a ELSE b

\* u64/u128 saturating_sub
SaturatingSub(a, b) == IF a >= b THEN a - b ELSE 0

(***************************************************************************)
(* The lock oracle: Streamflow stream accounts (streamflow.rs)             *)
(***************************************************************************)
Investors == {"alice", "bob", "carol"}

\* The number of values of a u64 (ProgressPda's 64-bit fields), scaled from
\* 2^64 to 2^10: every amount of the distribution menus is far below it, and
\* two streams of half of it together reach it.
U64Modulus == 1024

\* `as u64`: the cast keeps the low 64 bits.
AsU64(v) == v % U64Modulus

\* The stream accounts' contents: deposited, withdrawn, recipient.  sC is
\* fully withdrawn; sX is a corrupt record (withdrawn above deposited); sG
\* and sH each lock half of the u64 range.
StreamAccount(s) ==
    CASE s = "sA" -> [deposited |-> 6, withdrawn |-> 0, recipient |-> "alice"]
      [] s = "sG" -> [deposited |-> U64Modulus \div 2, withdrawn |-> 0,
                      recipient |-> "alice"]
      [] s = "sH" -> [deposited |-> U64Modulus \div 2, withdrawn |-> 0,
                      recipient |-> "bob"]
      [] s = "sB" -> [deposited |-> 5, withdrawn |-> 1, recipient |-> "bob"]
      [] s = "sX" -> [deposited |-> 1, withdrawn |-> 2, recipient |-> "alice"]
      [] OTHER    -> [deposited |-> 3, withdrawn |-> 3, recipient |-> "carol"]

\* Result<T>: err = "Ok" carries val, any other err is the error kind.
Ok(v) == [err |-> "Ok", val |-> v]

Err(e) == [err |-> e, val |-> 0]

\* calculate_locked_amount: deposited.checked_sub(withdrawn), else Overflow
CalculateLockedAmount(stream) ==
    IF stream.deposited >= stream.withdrawn
    THEN Ok(stream.deposited - stream.withdrawn)
    ELSE Err("Overflow")

\* A variant that accepts any recipient.
RecipientUnchecked(stream, expected_investor) == Ok(0)

\* validate_stream_for_investor: recipient must be the declared investor
\* (the build without the "local" test feature)
ValidateStreamForInvestor(stream, expected_investor) ==
    IF stream.recipient = expected_investor
    THEN Ok(0)
    ELSE Err("MissingRequiredInput")

(***************************************************************************)
(* DistributionMath (state.rs)                                             *)
(***************************************************************************)
\* The number of values of a u128, scaled from 2^128 to 2^30: above the
\* product of two u64 values and above 10000 times a u64 value, as 2^128 is.
U128Modulus == 1073741824

\* checked_mul on u128: the product fits.
MulFits(a, b) == b = 0 \/ a <= (U128Modulus - 1) \div b

\* A variant of calculate_eligible_bps without the ceiling.
EligibleBpsUnclamped(locked_total, y0_total_allocation, investor_fee_share_bps) ==
    IF y0_total_allocation = 0 THEN Err("InvalidY0")
    ELSE IF locked_total > y0_total_allocation THEN Err("LockedExceedsAllocation")
    ELSE IF ~MulFits(locked_total, BpsDenominator) THEN Err("Overflow")
    ELSE Ok((locked_total * BpsDenominator) \div y0_total_allocation)

CalculateEligibleBps(locked_total, y0_total_allocation, investor_fee_share_bps) ==
    IF y0_total_allocation = 0 THEN Err("InvalidY0")
    ELSE IF locked_total > y0_total_allocation THEN Err("LockedExceedsAllocation")
    ELSE IF ~MulFits(locked_total, BpsDenominator) THEN Err("Overflow")
    ELSE LET f_locked_bps == (locked_total * BpsDenominator) \div y0_total_allocation
             f_locked_bps_u16 == Min(f_locked_bps, BpsDenominator)
         IN  Ok(Min(investor_fee_share_bps, f_locked_bps_u16))

\* A variant that sizes the investor pool on top of the claimed amount.
FeeQuoteOnTop(claimed_quote, eligible_bps) ==
    claimed_quote + (claimed_quote * eligible_bps) \div BpsDenominator

\* calculate_investor_fee_quote; the checked product of a u64 amount and a
\* u16 share always fits in a u128.
CalculateInvestorFeeQuote(claimed_quote, eligible_bps) ==
    (claimed_quote * eligible_bps) \div BpsDenominator

\* A variant that never applies the cap.
Uncapped(investor_fee_quote, daily_cap, cumulative_distributed_today) ==
    investor_fee_quote

\* A variant of the cap that forgets what the day has distributed already.
CapWithoutHistory(investor_fee_quote, daily_cap, cumulative_distributed_today) ==
    IF daily_cap = 0 THEN investor_fee_quote ELSE Min(investor_fee_quote, daily_cap)

ApplyDailyCap(investor_fee_quote, daily_cap, cumulative_distributed_today) ==
    IF daily_cap = 0
    THEN investor_fee_quote
    ELSE Min(investor_fee_quote,
             SaturatingSub(daily_cap, cumulative_distributed_today))

\* A variant of calculate_investor_payout that rounds up.
PayoutRoundedUp(locked_amount, locked_total, investor_fee_quote) ==
    IF locked_total = 0
    THEN 0
    ELSE (locked_amount * investor_fee_quote + locked_total - 1) \div locked_total

\* calculate_investor_payout; the checked product of two u64 amounts always
\* fits in a u128.
CalculateInvestorPayout(locked_amount, locked_total, investor_fee_quote) ==
    IF locked_total = 0
    THEN 0
    ELSE (locked_amount * investor_fee_quote) \div locked_total

(***************************************************************************)
(* ProgressPda (state.rs)                                                  *)
(***************************************************************************)
\* initialize_progress: the zeroed record
InitialProgress(current_timestamp) ==
    [ last_distribution_ts          |-> 0,
      day_epoch                     |-> 0,
      cumulative_distributed_today  |-> 0,
      carry_over_lamports           |-> 0,
      pagination_cursor             |-> 0,
      day_finalized_flag            |-> FALSE,
      total_pages_expected          |-> 0,
      pages_processed_today         |-> 0,
      last_claimed_quote            |-> 0,
      last_claimed_base             |-> 0,
      day_total_locked              |-> 0,
      day_investor_pool_target      |-> 0,
      day_investor_distributed      |-> 0,
      day_creator_remainder_target  |-> 0,
      updated_at                    |-> current_timestamp ]

DayIndex(current_ts) == current_ts \div SecondsPerDay

\* A variant of is_new_day that compares timestamps with the day index.
NewDayByTimestamp(p, current_ts) == current_ts > p.day_epoch + SecondsPerDay

IsNewDay(p, current_ts) == DayIndex(current_ts) > p.day_epoch

CanStartNewDay(p, current_ts) ==
    \/ p.last_distribution_ts = 0
    \/ SaturatingSub(current_ts, p.last_distribution_ts) >= SecondsPerDay

\* A variant of start_new_day that also clears the carry-over.
StartNewDayClearingCarry(p, current_ts) ==
    [p EXCEPT !.day_epoch                    = current_ts \div SecondsPerDay,
              !.cumulative_distributed_today = 0,
              !.carry_over_lamports          = 0,
              !.pagination_cursor            = 0,
              !.day_finalized_flag           = FALSE,
              !.pages_processed_today        = 0,
              !.day_total_locked             = 0,
              !.day_investor_pool_target     = 0,
              !.day_investor_distributed     = 0,
              !.day_creator_remainder_target = 0,
              !.updated_at                   = current_ts]

\* A variant of start_new_day that keeps the day's running total.
StartNewDayKeepingTotal(p, current_ts) ==
    [p EXCEPT !.day_epoch                    = current_ts \div SecondsPerDay,
              !.pagination_cursor            = 0,
              !.day_finalized_flag           = FALSE,
              !.pages_processed_today        = 0,
              !.day_total_locked             = 0,
              !.day_investor_pool_target     = 0,
              !.day_investor_distributed     = 0,
              !.day_creator_remainder_target = 0,
              !.updated_at                   = current_ts]

StartNewDay(p, current_ts) ==
    [p EXCEPT !.day_epoch                    = DayIndex(current_ts),
              !.cumulative_distributed_today = 0,
              !.pagination_cursor            = 0,
              !.day_finalized_flag           = FALSE,
              !.pages_processed_today        = 0,
              !.day_total_locked             = 0,
              !.day_investor_pool_target     = 0,
              !.day_investor_distributed     = 0,
              !.day_creator_remainder_target = 0,
              !.updated_at                   = current_ts]

SetDayTargets(p, total_locked, investor_pool_target, creator_remainder_target) ==
    [p EXCEPT !.day_total_locked             = total_locked,
              !.day_investor_pool_target     = investor_pool_target,
              !.day_creator_remainder_target = creator_remainder_target]

AddInvestorDistribution(p, amount) ==
    [p EXCEPT !.day_investor_distributed = @ + amount]

\* A variant of finalize_day that forgets to set the flag.
ResetCursorOnly(p, current_ts) ==
    [p EXCEPT !.last_distribution_ts = current_ts,
              !.pagination_cursor    = 0,
              !.updated_at           = current_ts]

\* A variant of finalize_day that also clears the day's running total and
\* the carry-over.
FinalizedClearingTotals(p, current_ts) ==
    [p EXCEPT !.day_finalized_flag           = TRUE,
              !.last_distribution_ts         = current_ts,
              !.pagination_cursor            = 0,
              !.cumulative_distributed_today = 0,
              !.carry_over_lamports          = 0,
              !.updated_at                   = current_ts]

\* ProgressPda::finalize_day
MarkDayFinalized(p, current_ts) ==
    [p EXCEPT !.day_finalized_flag   = TRUE,
              !.last_distribution_ts = current_ts,
              !.pagination_cursor    = 0,
              !.updated_at           = current_ts]

(***************************************************************************)
(* Pages (distribute_fees.rs)                                              *)
(***************************************************************************)
\* hashv over the page index and the (stream, investor) pairs in order: the
\* digest is modelled by the hashed content itself (no collisions).
PageHash(page_index, investors) == <<page_index, investors>>

\* A variant of the first gate that never finds the day finalized.
NeverFinalized(p) == FALSE

\* The handler's first gate: a set day_finalized_flag ends the call.
IsDayFinalized(p) == p.day_finalized_flag

\* Lines 153-165: the finalized check, then the 24h gate and the new-day reset.
DayGate(p, current_timestamp) ==
    IF IsDayFinalized(p) THEN [err |-> "DayAlreadyFinalized", p |-> p]
    ELSE IF IsNewDay(p, current_timestamp)
         THEN IF ~CanStartNewDay(p, current_timestamp)
              THEN [err |-> "DayGateNotPassed", p |-> p]
              ELSE [err |-> "Ok", p |-> StartNewDay(p, current_timestamp)]
         ELSE [err |-> "Ok", p |-> p]

\* A variant of the quote-only requirement that lets any base amount pass.
BaseAccepted(base_amount) == TRUE

\* The quote-only requirement on the amounts read back after the claim.
QuoteOnly(base_amount) == base_amount = 0

\* A variant of the transfer to the treasury that leaves one unit behind.
AllButOne(quote_amount) == quote_amount - 1

\* Lines 499-513: the amount transfer_checked moves from the quote holding
\* account to the treasury.
MovedToTreasury(quote_amount) == quote_amount

\* claim_fees_from_position: the amounts found in the two holding accounts
\* after the claim; any base amount aborts; the quote amount moves to the
\* treasury.  temp_quote is what the quote holding account is left with.
ClaimFeesFromPosition(treasury_balance, quote_amount, base_amount) ==
    IF ~QuoteOnly(base_amount)
    THEN [err |-> "BaseFeeDetected", val |-> 0, treasury |-> treasury_balance,
          temp_quote |-> quote_amount]
    ELSE IF quote_amount = 0
         THEN [err |-> "Ok", val |-> 0, treasury |-> treasury_balance,
               temp_quote |-> quote_amount]
         ELSE [err |-> "Ok", val |-> quote_amount,
               treasury |-> treasury_balance + MovedToTreasury(quote_amount),
               temp_quote |-> quote_amount - MovedToTreasury(quote_amount)]

\* A variant of the page validation that checks the indexes only.
RECURSIVE IndexOnlyPages(_, _, _)
IndexOnlyPages(pages, k, expected) ==
    IF k > Len(pages) THEN "Ok"
    ELSE IF pages[k].page_index # expected THEN "InvalidPaginationState"
    ELSE IndexOnlyPages(pages, k + 1, expected + 1)

\* A variant of the page validation that checks the hashes only.
RECURSIVE HashOnlyPages(_, _, _)
HashOnlyPages(pages, k, expected) ==
    IF k > Len(pages) THEN "Ok"
    ELSE IF pages[k].page_hash # PageHash(pages[k].page_index, pages[k].investors)
         THEN "InvalidPaginationState"
    ELSE HashOnlyPages(pages, k + 1, expected + 1)

\* Lines 224-251: pages must be contiguous from the cursor and match their hash.
RECURSIVE ValidatePages(_, _, _)
ValidatePages(pages, k, expected) ==
    IF k > Len(pages) THEN "Ok"
    ELSE IF pages[k].page_index # expected THEN "InvalidPaginationState"
    ELSE IF pages[k].page_hash # PageHash(pages[k].page_index, pages[k].investors)
         THEN "InvalidPaginationState"
    ELSE ValidatePages(pages, k + 1, expected + 1)

RECURSIVE AllInvestors(_, _)
AllInvestors(pages, k) ==
    IF k > Len(pages) THEN <<>>
    ELSE pages[k].investors \o AllInvestors(pages, k + 1)

\* calculate_total_locked_from_streamflow: every investor of every page.
RECURSIVE SumLocked(_, _, _)
SumLocked(entries, i, total_locked) ==
    IF i > Len(entries) THEN Ok(total_locked)
    ELSE LET stream == StreamAccount(entries[i].stream)
             valid  == ValidateStreamForInvestor(stream, entries[i].investor)
             locked == CalculateLockedAmount(stream)
         IN  IF valid.err # "Ok" THEN Err(valid.err)
             ELSE IF locked.err # "Ok" THEN Err(locked.err)
             ELSE SumLocked(entries, i + 1, total_locked + locked.val)

CalculateTotalLockedFromStreamflow(pages) ==
    SumLocked(AllInvestors(pages, 1), 1, 0)

\* transfer_checked out of the treasury: the token program refuses an amount
\* above the source balance.
TreasuryCovers(treasury_balance, amount) == amount <= treasury_balance

\* A variant for which no payout is below the threshold.
NeverBelowThreshold(raw_payout, min_payout_lamports) == FALSE

\* Line 649: the payout is below the minimum payout threshold.
BelowThreshold(raw_payout, min_payout_lamports) == raw_payout < min_payout_lamports

\* process_investor_page, one investor of the page.  acc carries the call's
\* treasury balance and investor balances and the page's running sums.
ProcessInvestor(entry, total_locked, investor_fee_quote, min_payout_lamports, acc) ==
    LET stream == StreamAccount(entry.stream)
        valid  == ValidateStreamForInvestor(stream, entry.investor)
        locked == CalculateLockedAmount(stream)
        raw_payout == CalculateInvestorPayout(locked.val, total_locked,
                                              investor_fee_quote)
    IN  IF valid.err # "Ok" THEN [acc EXCEPT !.err = valid.err]
        ELSE IF locked.err # "Ok" THEN [acc EXCEPT !.err = locked.err]
        ELSE IF locked.val = 0 THEN acc
        ELSE IF BelowThreshold(raw_payout, min_payout_lamports)
             THEN [acc EXCEPT !.page_dust = @ + raw_payout]
        ELSE IF ~TreasuryCovers(acc.treasury, raw_payout)
             THEN [acc EXCEPT !.err = "InsufficientFunds"]
        ELSE [acc EXCEPT !.treasury = @ - raw_payout,
                         !.balances[entry.investor] = @ + raw_payout,
                         !.page_distributed = @ + raw_payout]

RECURSIVE ProcessInvestors(_, _, _, _, _, _)
ProcessInvestors(investors, i, total_locked, investor_fee_quote, min_payout_lamports, acc) ==
    IF i > Len(investors) \/ acc.err # "Ok" THEN acc
    ELSE ProcessInvestors(investors, i + 1, total_locked, investor_fee_quote,
                          min_payout_lamports,
                          ProcessInvestor(investors[i], total_locked,
                                          investor_fee_quote,
                                          min_payout_lamports, acc))

\* A variant that counts the holders with a locked amount only.
CountsLockedOnly(investors) ==
    Cardinality({j \in 1..Len(investors) :
        CalculateLockedAmount(StreamAccount(investors[j].stream)).val > 0})

\* Line 598: processed_count, every holder listed in the page.
ProcessedCount(investors) == Len(investors)

\* process_investor_page: (page_distributed, page_dust, processed_count) and
\* the balances after the page's transfers.
ProcessInvestorPage(page, total_locked, investor_fee_quote, min_payout_lamports, treasury_balance, investor_balances) ==
    ProcessInvestors(page.investors, 1, total_locked, investor_fee_quote,
                     min_payout_lamports,
                     [err              |-> "Ok",
                      page_distributed |-> 0,
                      page_dust        |-> 0,
                      processed_count  |-> ProcessedCount(page.investors),
                      treasury         |-> treasury_balance,
                      balances         |-> investor_balances])

\* The page_index field of the InvestorPayoutPage event, as line 335 computes it.
EventPageIndex(total_processed_count, page_processed) ==
    total_processed_count \div page_processed

\* Lines 306-343: the loop over the call's pages.  An integer division by
\* zero (line 335, a page without investors) panics and aborts the call.
RECURSIVE ProcessPages(_, _, _, _, _, _, _)
ProcessPages(pages, k, total_locked, investor_fee_quote, min_payout_lamports, current_timestamp, run) ==
    IF k > Len(pages) \/ run.err # "Ok" THEN run
    ELSE LET pg == ProcessInvestorPage(pages[k], total_locked, investor_fee_quote,
                                       min_payout_lamports, run.treasury,
                                       run.balances)
             total_processed_count == run.total_processed_count + pg.processed_count
         IN  IF pg.err # "Ok" THEN [run EXCEPT !.err = pg.err]
             ELSE IF pg.processed_count = 0 THEN [run EXCEPT !.err = "Panic"]
             ELSE ProcessPages(pages, k + 1, total_locked, investor_fee_quote,
                    min_payout_lamports, current_timestamp,
                    [err |-> "Ok",
                     total_distributed_this_call |->
                         run.total_distributed_this_call + pg.page_distributed,
                     total_dust_this_call |->
                         run.total_dust_this_call + pg.page_dust,
                     total_processed_count |-> total_processed_count,
                     treasury |-> pg.treasury,
                     balances |-> pg.balances,
                     events |-> Append(run.events,
                         [type |-> "InvestorPayoutPage",
                          page_index |-> EventPageIndex(total_processed_count,
                                                        pg.processed_count),
                          investors_processed |-> pg.processed_count,
                          total_distributed |-> pg.page_distributed,
                          timestamp |-> current_timestamp])])

\* A variant of the day-closed event that emits nothing.
NothingEmitted(p, current_timestamp, total_claimed, creator_payout) == <<>>

\* Lines 746-754 of finalize_day: the day-closed event, read from the
\* progress account after it was marked finalized.
DayClosed(p, current_timestamp, total_claimed, creator_payout) ==
    <<[type |-> "CreatorPayoutDayClosed",
       day_epoch |-> p.day_epoch,
       total_claimed |-> total_claimed,
       total_distributed |-> p.cumulative_distributed_today,
       creator_payout |-> creator_payout,
       carry |-> p.carry_over_lamports,
       timestamp |-> current_timestamp]>>

\* finalize_day (distribute_fees.rs): the creator transfer, the progress
\* update and the day-closed event.  st carries progress, treasury, creator
\* balance and events of the call so far.
FinalizeDay(st, current_timestamp, total_claimed, creator_payout) ==
    IF creator_payout > 0 /\ ~TreasuryCovers(st.treasury, creator_payout)
    THEN [st EXCEPT !.err = "InsufficientFunds"]
    ELSE LET p == MarkDayFinalized(st.progress, current_timestamp)
         IN  [st EXCEPT
                !.progress = p,
                !.treasury = @ - creator_payout,
                !.creator  = @ + creator_payout,
                !.events   = @ \o DayClosed(p, current_timestamp,
                                             total_claimed, creator_payout)]

\* A variant that counts one page per call.
OnePagePerCall(investor_pages) == 1

\* investor_pages.len(): what lines 347 and 351-357 add to
\* pages_processed_today and to pagination_cursor.
PagesConsumed(investor_pages) == Len(investor_pages)

\* A variant without the check against the day's target.
TargetUnchecked(p) == TRUE

\* Lines 360-363: the day's investor pool target is not exceeded.
WithinPoolTarget(p) == p.day_investor_distributed <= p.day_investor_pool_target

\* A variant of the creator remainder that leaves the carry-over out.
RemainderIgnoringCarry(claimed_quote, p) ==
    SaturatingSub(claimed_quote, p.cumulative_distributed_today)

\* Lines 376-378: what the finalizing call pays the creator.
CreatorRemainder(claimed_quote, p) ==
    SaturatingSub(SaturatingSub(claimed_quote, p.cumulative_distributed_today),
                  p.carry_over_lamports)

\* Lines 345-394: the progress update after the page loop, the check against
\* the day's target and, on the final page, the finalization.  p1 is the
\* progress record after line 304, run the outcome of the page loop.
SettlePages(st, p1, run, current_timestamp, investor_pages, is_final_page, claimed_quote) ==
    LET p2 == AddInvestorDistribution(
                [p1 EXCEPT
                   !.cumulative_distributed_today = @ + run.total_distributed_this_call,
                   !.carry_over_lamports = @ + run.total_dust_this_call,
                   !.pages_processed_today = @ + PagesConsumed(investor_pages),
                   !.updated_at = current_timestamp,
                   !.pagination_cursor = @ + PagesConsumed(investor_pages)],
                AsU64(run.total_distributed_this_call))
        p3 == IF p2.total_pages_expected = 0
              THEN [p2 EXCEPT !.total_pages_expected = p2.pagination_cursor]
              ELSE p2
        creator_remainder == CreatorRemainder(claimed_quote, p3)
        paid == [st EXCEPT !.treasury = run.treasury,
                           !.balances = run.balances,
                           !.events   = run.events]
    IN  IF run.err # "Ok" THEN [st EXCEPT !.err = run.err]
        ELSE IF ~WithinPoolTarget(p2) THEN [st EXCEPT !.err = "Overflow"]
        ELSE IF ~is_final_page THEN [paid EXCEPT !.progress = p2]
        ELSE IF p3.total_pages_expected # p3.pagination_cursor
             THEN [st EXCEPT !.err = "InvalidPaginationState"]
        ELSE FinalizeDay([paid EXCEPT !.progress = p3], current_timestamp,
                         claimed_quote, creator_remainder)

\* A variant that takes every call for the day's first.
AlwaysFirstPages(p) == TRUE

\* Line 288: no page has been processed today.
FirstPagesOfDay(p) == p.pages_processed_today = 0

\* Lines 260-343: the investor pool of the call from the locked total, the
\* day targets on the day's first pages, and the page loop.
PayPages(st, pol, current_timestamp, investor_pages, is_final_page, claimed_quote, total_locked) ==
    LET p0       == st.progress
        eligible == CalculateEligibleBps(total_locked, pol.y0_total_allocation,
                                         pol.investor_fee_share_bps)
        capped_investor_fee_quote ==
            ApplyDailyCap(CalculateInvestorFeeQuote(claimed_quote, eligible.val),
                          pol.daily_cap_quote_lamports,
                          p0.cumulative_distributed_today)
        p1 == IF FirstPagesOfDay(p0)
              THEN SetDayTargets(p0, AsU64(total_locked),
                       AsU64(capped_investor_fee_quote),
                       SaturatingSub(AsU64(claimed_quote),
                                     AsU64(capped_investor_fee_quote)))
              ELSE p0
    IN  IF eligible.err # "Ok" THEN [st EXCEPT !.err = eligible.err]
        ELSE SettlePages(st, p1,
                 ProcessPages(investor_pages, 1, total_locked,
                     capped_investor_fee_quote, pol.min_payout_lamports,
                     current_timestamp,
                     [err |-> "Ok",
                      total_distributed_this_call |-> 0,
                      total_dust_this_call |-> 0,
                      total_processed_count |-> 0,
                      treasury |-> st.treasury,
                      balances |-> st.balances,
                      events |-> st.events]),
                 current_timestamp, investor_pages, is_final_page, claimed_quote)

\* Lines 224-394: what the handler does with a nonzero claimed quote amount.
\* st is the call's state after the claim.
DistributeClaimed(st, pol, current_timestamp, investor_pages, is_final_page, claimed_quote) ==
    LET paging == ValidatePages(investor_pages, 1, st.progress.pagination_cursor)
        locked == CalculateTotalLockedFromStreamflow(investor_pages)
    IN  IF paging # "Ok" THEN [st EXCEPT !.err = paging]
        ELSE IF locked.err # "Ok" THEN [st EXCEPT !.err = locked.err]
        ELSE PayPages(st, pol, current_timestamp, investor_pages, is_final_page,
                      claimed_quote, locked.val)

\* A variant of the zero-claim path that returns without finalizing.
ReturnsWithoutFinalizing(st, current_timestamp, is_final_page) == st

\* Lines 204-222: nothing was claimed; the day is finalized on the final page.
NothingClaimed(st, current_timestamp, is_final_page) ==
    IF is_final_page
    THEN FinalizeDay(st, current_timestamp, 0, 0)
    ELSE st

\* handler: one run of the distribute instruction at current_timestamp, given
\* what the claim leaves in the two holding accounts.  The result is the
\* error kind ("Ok" on success) and the state the run would commit.
Handler(p, pol, treasury_balance, investor_balances, creator_balance, current_timestamp, investor_pages, is_final_page, quote_amount, base_amount) ==
    LET gate  == DayGate(p, current_timestamp)
        claim == ClaimFeesFromPosition(treasury_balance, quote_amount, base_amount)
        st0   == [err      |-> "Ok",
                  progress |-> p,
                  treasury |-> treasury_balance,
                  balances |-> investor_balances,
                  creator  |-> creator_balance,
                  temp     |-> [quote |-> quote_amount, base |-> base_amount],
                  events   |-> <<>>]
        st1   == [st0 EXCEPT
                    !.progress = [gate.p EXCEPT !.last_claimed_quote = claim.val,
                                                !.last_claimed_base  = 0],
                    !.treasury = claim.treasury,
                    !.temp.quote = claim.temp_quote,
                    !.events   = <<[type |-> "QuoteFeesClaimed",
                                    claimed_quote |-> claim.val,
                                    claimed_base  |-> 0,
                                    timestamp |-> current_timestamp]>>]
    IN  IF gate.err # "Ok" THEN [st0 EXCEPT !.err = gate.err]
        ELSE IF claim.err # "Ok" THEN [st0 EXCEPT !.err = claim.err]
        ELSE IF claim.val = 0
             THEN NothingClaimed(st1, current_timestamp, is_final_page)
        ELSE DistributeClaimed(st1, pol, current_timestamp, investor_pages,
                               is_final_page, claim.val)

(***************************************************************************)
(* The inputs the model draws from                                         *)
(***************************************************************************)
\* The policy account as the distribution reads it (PolicyPda).  A nonzero
\* y0_total_allocation is what initialize_policy leaves to position
\* initialization to store; SetupSpec below starts from the setup
\* instructions instead.
Policies ==
    { [investor_fee_share_bps |-> 10000, daily_cap_quote_lamports |-> 0,
       min_payout_lamports |-> 0, y0_total_allocation |-> 10],
      [investor_fee_share_bps |-> 5000, daily_cap_quote_lamports |-> 0,
       min_payout_lamports |-> 3, y0_total_allocation |-> 10],
      [investor_fee_share_bps |-> 10000, daily_cap_quote_lamports |-> 8,
       min_payout_lamports |-> 0, y0_total_allocation |-> 10],
      [investor_fee_share_bps |-> 10000, daily_cap_quote_lamports |-> 0,
       min_payout_lamports |-> 0, y0_total_allocation |-> 0] }

\* What a claim can leave in the quote and base holding accounts.
ClaimOutcomes ==
    { [quote |-> 0,  base |-> 0], [quote |-> 15, base |-> 0],
      [quote |-> 0,  base |-> 7], [quote |-> 15, base |-> 7] }

Entry(s, i) == [stream |-> s, investor |-> i]

\* The investor lists of a page submitted alone, and of the pages of a
\* two-page call.
SoloLists ==
    { <<>>, <<Entry("sA", "alice")>>, <<Entry("sB", "bob")>>,
      <<Entry("sA", "alice"), Entry("sB", "bob")>>,
      <<Entry("sC", "carol")>>,      \* nothing locked
      <<Entry("sA", "alice"), Entry("sC", "carol")>>,
      <<Entry("sA", "bob")>>,        \* not the stream's recipient
      <<Entry("sX", "alice")>> }     \* corrupt record

PairLists == { <<Entry("sA", "alice")>>, <<Entry("sB", "bob")>> }

PageIndexes == {0, 1}

\* A page whose declared hash commits to its own content.
Page(idx, investors) ==
    [page_index |-> idx, investors |-> investors,
     page_hash |-> PageHash(idx, investors)]

\* Page k of the call altered after its hash was committed: the hash is the
\* one of the same investors under the next index (k = 0: nothing altered).
Tamper(pages, k) ==
    [j \in 1..Len(pages) |->
        IF j = k
        THEN [pages[j] EXCEPT !.page_hash =
                  PageHash(pages[j].page_index + 1, pages[j].investors)]
        ELSE pages[j]]

PageSeqs ==
    {<<>>}
    \cup { Tamper(<<Page(i, l)>>, k) :
             i \in PageIndexes, l \in SoloLists, k \in 0..1 }
    \cup { Tamper(<<Page(i1, l1), Page(i2, l2)>>, k) :
             i1 \in PageIndexes, i2 \in PageIndexes,
             l1 \in PairLists, l2 \in PairLists, k \in 0..2 }

NoTx == [pages |-> <<>>, is_final_page |-> FALSE]

NoClaim == [quote |-> 0, base |-> 0]

NoCall ==
    [npages |-> 0, is_final_page |-> FALSE, hash_mismatch |-> FALSE,
     index_mismatch |-> FALSE]

\* No DistributionMath function has been called on its own.
NoMath == [fn |-> "none", args |-> <<>>, ret |-> Ok(0)]

\* PolicyPda, OwnerPda (HonoraryPosition) and ProgressPda: the accounts the
\* distribute instruction requires to exist.
ProgramAccounts == {"policy", "position", "progress"}

(***************************************************************************)
(* State                                                                   *)
(***************************************************************************)
VARIABLES
    progress,      \* ProgressPda
    policy,        \* PolicyPda
    treasury,      \* quote_treasury balance
    balances,      \* investors' quote account balances
    creator,       \* creator_quote_ata balance
    now,           \* Clock unix_timestamp
    pc,            \* "idle", "submitted" (a transaction in flight), "executed"
    tx,            \* the transaction in flight: investor_pages, is_final_page
    result,        \* the error kind the executed transaction returned, or "Ok"
    claimed,       \* what the executed transaction's claim yielded
    replayed,      \* the executed transaction resubmitted a consumed page
    events,        \* the events the executed transaction emitted
    ncalls,        \* committed distribute transactions
    claimedTotal,  \* history: quote amount claimed into the treasury so far
    day,           \* history of the current day: claims, payouts, pages
    call,          \* what the executed transaction had submitted
    temp,          \* balances of the two holding accounts of the claim
    math,          \* the last DistributionMath call: function, arguments, result
    accounts       \* the program accounts that have been initialized

vars == <<progress, policy, treasury, balances, creator, now, pc, tx, result,
          claimed, replayed, events, ncalls, claimedTotal, day, call, accounts,
          temp, math>>

ledger == <<progress, policy, treasury, balances, creator>>

NewDayHistory(carry) ==
    [claimed |-> 0, paid |-> [i \in Investors |-> 0], creator |-> 0,
     carry_start |-> carry, pages |-> <<>>, ignored |-> 0, calls |-> 0]

Init ==
    /\ progress = InitialProgress(StartTime)
    /\ policy \in Policies
    /\ treasury = 0
    /\ balances = [i \in Investors |-> 0]
    /\ creator = 0
    /\ now = StartTime
    /\ pc = "idle"
    /\ tx = NoTx
    /\ result = "None"
    /\ claimed = NoClaim
    /\ replayed = FALSE
    /\ events = <<>>
    /\ ncalls = 0
    /\ claimedTotal = 0
    /\ day = NewDayHistory(0)
    /\ call = NoCall
    /\ accounts = ProgramAccounts
    /\ temp = NoClaim
    /\ math = NoMath

\* The clock advances between transactions.
Tick ==
    /\ pc = "idle"
    /\ now < StartTime + MaxTicks * TickStep
    /\ now' = now + TickStep
    /\ UNCHANGED <<progress, policy, treasury, balances, creator, pc, tx, result,
                   claimed, replayed, events, ncalls, claimedTotal, day,
                   call, accounts, temp, math>>

\* A crank caller sends distribute_fees(investor_pages, is_final_page).
Submit ==
    /\ pc = "idle"
    /\ ProgramAccounts \subseteq accounts
    /\ ncalls < MaxCalls
    /\ \E pages \in PageSeqs, final \in BOOLEAN :
           tx' = [pages |-> pages, is_final_page |-> final]
    /\ pc' = "submitted"
    /\ UNCHANGED <<progress, policy, treasury, balances, creator, now, result,
                   claimed, replayed, events, ncalls, claimedTotal, day,
                   call, accounts, temp, math>>

\* A page of the call has an index below the cursor: it was consumed already.
ResubmitsConsumedPage(pages, cursor) ==
    \E k \in 1..Len(pages) : pages[k].page_index < cursor

\* The day's history after a committed run.
DayAfter(out, amounts) ==
    LET base == IF IsNewDay(progress, now)
                THEN NewDayHistory(progress.carry_over_lamports)
                ELSE day
    IN  [claimed |-> base.claimed + amounts.quote,
         paid    |-> [i \in Investors |->
                         base.paid[i] + (out.balances[i] - balances[i])],
         creator |-> base.creator + (out.creator - creator),
         carry_start |-> base.carry_start,
         pages   |-> IF amounts.quote > 0
                     THEN base.pages \o tx.pages
                     ELSE base.pages,
         ignored |-> IF amounts.quote > 0
                     THEN base.ignored
                     ELSE base.ignored + Len(tx.pages),
         calls   |-> base.calls + 1]

\* A page of the call declares a hash other than the recomputed one.
HashMismatch(pages) ==
    \E k \in 1..Len(pages) :
        pages[k].page_hash # PageHash(pages[k].page_index, pages[k].investors)

\* A page of the call is not at its place: page k of the call (from 1) does
\* not have the index cursor + k - 1.
IndexMismatch(pages, cursor) ==
    \E k \in 1..Len(pages) : pages[k].page_index # cursor + k - 1

\* The ledger runs the handler; an error rolls the transaction back.
Execute ==
    /\ pc = "submitted"
    /\ \E amounts \in ClaimOutcomes :
         \E out \in {Handler(progress, policy, treasury, balances, creator, now,
                             tx.pages, tx.is_final_page,
                             temp.quote + amounts.quote,
                             temp.base + amounts.base)} :
             /\ result' = out.err
             /\ claimed' = IF DayGate(progress, now).err = "Ok"
                           THEN amounts ELSE NoClaim
             /\ replayed' = (/\ ~IsNewDay(progress, now)
                             /\ ResubmitsConsumedPage(tx.pages,
                                    progress.pagination_cursor))
             /\ call' = [npages |-> Len(tx.pages),
                         is_final_page |-> tx.is_final_page,
                         hash_mismatch |-> HashMismatch(tx.pages),
                         index_mismatch |->
                             IndexMismatch(tx.pages,
                                 DayGate(progress, now).p.pagination_cursor)]
             /\ IF out.err = "Ok"
                THEN /\ progress' = out.progress
                     /\ treasury' = out.treasury
                     /\ balances' = out.balances
                     /\ creator' = out.creator
                     /\ temp' = out.temp
                     /\ events' = out.events
                     /\ ncalls' = ncalls + 1
                     /\ claimedTotal' = claimedTotal + amounts.quote
                     /\ day' = DayAfter(out, amounts)
                ELSE /\ UNCHANGED <<progress, treasury, balances, creator,
                                    temp, ncalls, claimedTotal, day>>
                     /\ events' = <<>>
    /\ pc' = "executed"
    /\ tx' = NoTx
    /\ UNCHANGED <<policy, now, accounts, math>>

\* The caller has read the outcome.
Confirm ==
    /\ pc = "executed"
    /\ pc' = "idle"
    /\ result' = "None"
    /\ claimed' = NoClaim
    /\ replayed' = FALSE
    /\ events' = <<>>
    /\ call' = NoCall
    /\ UNCHANGED <<progress, policy, treasury, balances, creator, now, tx,
                   ncalls, claimedTotal, day, accounts, temp, math>>

Next == Tick \/ Submit \/ Execute \/ Confirm

Spec == Init /\ [][Next]_vars

(***************************************************************************)
(* Distribution over streams whose locked total exceeds the u64 range      *)
(***************************************************************************)
\* A policy whose Y0 (a u128) is above the u64 range.
WidePolicy ==
    [investor_fee_share_bps |-> 10000, daily_cap_quote_lamports |-> 0,
     min_payout_lamports |-> 0, y0_total_allocation |-> 2 * U64Modulus]

WideLists ==
    { <<Entry("sG", "alice")>>, <<Entry("sH", "bob")>>,
      <<Entry("sG", "alice"), Entry("sH", "bob")>>,
      <<Entry("sA", "alice"), Entry("sB", "bob")>> }

WidePageSeqs ==
    {<<>>}
    \cup { <<Page(i, l)>> : i \in PageIndexes, l \in WideLists }
    \cup { <<Page(0, <<Entry("sG", "alice")>>), Page(1, <<Entry("sH", "bob")>>)>> }

WideInit ==
    /\ progress = InitialProgress(StartTime)
    /\ policy = WidePolicy
    /\ treasury = 0
    /\ balances = [i \in Investors |-> 0]
    /\ creator = 0
    /\ now = StartTime
    /\ pc = "idle"
    /\ tx = NoTx
    /\ result = "None"
    /\ claimed = NoClaim
    /\ replayed = FALSE
    /\ events = <<>>
    /\ ncalls = 0
    /\ claimedTotal = 0
    /\ day = NewDayHistory(0)
    /\ call = NoCall
    /\ accounts = ProgramAccounts
    /\ temp = NoClaim
    /\ math = NoMath

\* A crank caller sends distribute_fees over the large streams.
SubmitWide ==
    /\ pc = "idle"
    /\ ProgramAccounts \subseteq accounts
    /\ ncalls < MaxCalls
    /\ \E pages \in WidePageSeqs, final \in BOOLEAN :
           tx' = [pages |-> pages, is_final_page |-> final]
    /\ pc' = "submitted"
    /\ UNCHANGED <<progress, policy, treasury, balances, creator, now, result,
                   claimed, replayed, events, ncalls, claimedTotal, day,
                   call, accounts, temp, math>>

WideNext == Tick \/ SubmitWide \/ Execute \/ Confirm

WideSpec == WideInit /\ [][WideNext]_vars

(***************************************************************************)
(* DistributionMath called on its own, as the unit tests of state.rs do    *)
(***************************************************************************)
\* locked_total and Y0 (u128), up to the first values whose product with
\* 10000 does not fit.
LockedChoices == {0, 3, 6, 10, 600, 1000, 107374, 107375}

Y0Choices == {0, 10, 1000, 200000}

\* investor_fee_share_bps (u16)
BpsChoices == {0, 5000, 9000, 10000, 20000}

\* What a DistributionMath function leaves alone: it reads its arguments only.
program == <<progress, policy, treasury, balances, creator, now, pc, tx,
             result, claimed, replayed, events, ncalls, claimedTotal, day,
             call, accounts, temp>>

MathInit ==
    /\ progress = InitialProgress(StartTime)
    /\ policy = WidePolicy
    /\ treasury = 0
    /\ balances = [i \in Investors |-> 0]
    /\ creator = 0
    /\ now = StartTime
    /\ pc = "idle"
    /\ tx = NoTx
    /\ result = "None"
    /\ claimed = NoClaim
    /\ replayed = FALSE
    /\ events = <<>>
    /\ ncalls = 0
    /\ claimedTotal = 0
    /\ day = NewDayHistory(0)
    /\ call = NoCall
    /\ accounts = ProgramAccounts
    /\ temp = NoClaim
    /\ math = NoMath

\* claimed_quote, as the handler and the unit test pass it.
ClaimedChoices == {0, 7, 15, 1000, 100000}

\* The locked amounts of the holders of a split, and the pools to split.
LockedSplits ==
    { <<7>>, <<6, 4>>, <<60, 40>>, <<6, 4, 0>>, <<1, 1, 1>>, <<0, 0>>, <<3, 0, 5>> }

PoolChoices == {0, 7, 8, 10, 15, 900000}

RECURSIVE SeqSum(_)
SeqSum(amounts) ==
    IF amounts = <<>> THEN 0 ELSE Head(amounts) + SeqSum(Tail(amounts))

InvestorFeeQuote ==
    /\ \E claimed_quote \in ClaimedChoices, bps \in BpsChoices \ {20000} :
           math' = [fn   |-> "calculate_investor_fee_quote",
                    args |-> <<claimed_quote, bps>>,
                    ret  |-> Ok(CalculateInvestorFeeQuote(claimed_quote, bps))]
    /\ UNCHANGED program

\* calculate_investor_payout for every holder of a split, the total being
\* the sum of the holders' locked amounts.
InvestorPayouts ==
    /\ \E locked \in LockedSplits, pool \in PoolChoices :
           math' = [fn   |-> "calculate_investor_payout",
                    args |-> <<locked, pool>>,
                    ret  |-> Ok([k \in 1..Len(locked) |->
                                CalculateInvestorPayout(locked[k], SeqSum(locked),
                                                        pool)])]
    /\ UNCHANGED program

\* daily_cap (u64) and cumulative_distributed_today (u128)
CapChoices == {0, 8, 800000}

CumulativeChoices == {0, 5, 8, 9, 800000, 900000}

\* apply_daily_cap returns a u128, not a Result.
DailyCap ==
    /\ \E investor_fee_quote \in PoolChoices, daily_cap \in CapChoices, cumulative \in CumulativeChoices :
           math' = [fn   |-> "apply_daily_cap",
                    args |-> <<investor_fee_quote, daily_cap, cumulative>>,
                    ret  |-> ApplyDailyCap(investor_fee_quote, daily_cap,
                                           cumulative)]
    /\ UNCHANGED program

EligibleBps ==
    /\ \E locked_total \in LockedChoices, y0 \in Y0Choices, bps \in BpsChoices :
           math' = [fn   |-> "calculate_eligible_bps",
                    args |-> <<locked_total, y0, bps>>,
                    ret  |-> CalculateEligibleBps(locked_total, y0, bps)]
    /\ UNCHANGED program

MathNext == EligibleBps \/ InvestorFeeQuote \/ InvestorPayouts \/ DailyCap

MathSpec == MathInit /\ [][MathNext]_vars

(***************************************************************************)
(* Setup: initialize_policy, initialize_honorary_position,                 *)
(* initialize_progress and update_policy, followed by distribution         *)
(***************************************************************************)
\* Option<T>: None and Some(v).
None == <<>>

Some(v) == <<v>>

\* The arguments the authority may pass.
FeeShareChoices == {0, 5000, 10000, 10001}

DailyCapChoices == {0, 8}

MinPayoutChoices == {0, 3}

\* (tick_lower, tick_upper)
TickChoices == {<<0, 10>>, <<10, 10>>}

\* The policy and progress accounts before they are initialized.
NoPolicy ==
    [investor_fee_share_bps |-> 0, daily_cap_quote_lamports |-> 0,
     min_payout_lamports |-> 0, y0_total_allocation |-> 0]

NoProgress == InitialProgress(0)

rest == <<treasury, balances, creator, now, pc, tx, claimed, replayed, events,
          ncalls, claimedTotal, day, call, temp, math>>

\* A variant of the fee-share validation that accepts every value.
AnyFeeShareBps(fee_share_bps) == TRUE

\* The fee-share validation of initialize_policy and update_policy.
ValidFeeShareBps(fee_share_bps) == fee_share_bps <= 10000

SetupInit ==
    /\ progress = NoProgress
    /\ policy = NoPolicy
    /\ accounts = {}
    /\ treasury = 0
    /\ balances = [i \in Investors |-> 0]
    /\ creator = 0
    /\ now = StartTime
    /\ pc = "idle"
    /\ tx = NoTx
    /\ result = "None"
    /\ claimed = NoClaim
    /\ replayed = FALSE
    /\ events = <<>>
    /\ ncalls = 0
    /\ claimedTotal = 0
    /\ day = NewDayHistory(0)
    /\ call = NoCall
    /\ temp = NoClaim
    /\ math = NoMath

\* initialize_policy: the account is created (init) with the arguments and
\* y0_total_allocation = 0.
InitializePolicy ==
    /\ pc = "idle"
    /\ "policy" \notin accounts
    /\ \E investor_fee_share_bps \in FeeShareChoices,
          daily_cap_quote_lamports \in DailyCapChoices,
          min_payout_lamports \in MinPayoutChoices,
          same_mints \in BOOLEAN :
          IF ~ValidFeeShareBps(investor_fee_share_bps)
          THEN /\ result' = "InvalidFeeShareBps"
               /\ UNCHANGED <<policy, accounts>>
          ELSE IF same_mints
          THEN /\ result' = "InvalidPoolOrder"
               /\ UNCHANGED <<policy, accounts>>
          ELSE /\ policy' =
                     [investor_fee_share_bps |-> investor_fee_share_bps,
                      daily_cap_quote_lamports |-> daily_cap_quote_lamports,
                      min_payout_lamports |-> min_payout_lamports,
                      y0_total_allocation |-> 0]
               /\ accounts' = accounts \cup {"policy"}
               /\ result' = "Ok"
    /\ UNCHANGED <<progress, rest>>

\* initialize_honorary_position: creates the position owner account; the
\* policy account is read, not written.
InitializeHonoraryPosition ==
    /\ pc = "idle"
    /\ "policy" \in accounts
    /\ "position" \notin accounts
    /\ \E quote_mint_matches \in BOOLEAN, pool_matches \in BOOLEAN,
          ticks \in TickChoices, preflight_verified \in BOOLEAN :
          IF ~quote_mint_matches
          THEN result' = "InvalidPoolOrder" /\ UNCHANGED accounts
          ELSE IF ~pool_matches
          THEN result' = "MissingRequiredInput" /\ UNCHANGED accounts
          ELSE IF ticks[1] >= ticks[2]
          THEN result' = "InvalidTickRange" /\ UNCHANGED accounts
          ELSE IF ~preflight_verified
          THEN result' = "PreflightFailed" /\ UNCHANGED accounts
          ELSE /\ accounts' = accounts \cup {"position"}
               /\ result' = "Ok"
    /\ UNCHANGED <<progress, policy, rest>>

\* initialize_progress: creates the progress account, zeroed.
InitializeProgress ==
    /\ pc = "idle"
    /\ "policy" \in accounts
    /\ "progress" \notin accounts
    /\ progress' = InitialProgress(now)
    /\ accounts' = accounts \cup {"progress"}
    /\ result' = "Ok"
    /\ UNCHANGED <<policy, rest>>

\* update_policy: the authority replaces the fields it passes.
UpdatePolicy ==
    /\ pc = "idle"
    /\ "policy" \in accounts
    /\ \E new_investor_fee_share_bps \in
              {None} \cup {Some(b) : b \in FeeShareChoices},
          new_daily_cap_quote_lamports \in
              {None} \cup {Some(c) : c \in DailyCapChoices},
          new_min_payout_lamports \in
              {None} \cup {Some(m) : m \in MinPayoutChoices} :
          IF /\ new_investor_fee_share_bps # None
             /\ ~ValidFeeShareBps(new_investor_fee_share_bps[1])
          THEN result' = "InvalidFeeShareBps" /\ UNCHANGED policy
          ELSE /\ policy' =
                     [policy EXCEPT
                        !.investor_fee_share_bps =
                            IF new_investor_fee_share_bps = None THEN @
                            ELSE new_investor_fee_share_bps[1],
                        !.daily_cap_quote_lamports =
                            IF new_daily_cap_quote_lamports = None THEN @
                            ELSE new_daily_cap_quote_lamports[1],
                        !.min_payout_lamports =
                            IF new_min_payout_lamports = None THEN @
                            ELSE new_min_payout_lamports[1]]
               /\ result' = "Ok"
    /\ UNCHANGED <<progress, accounts, rest>>

SetupNext ==
    \/ InitializePolicy
    \/ InitializeHonoraryPosition
    \/ InitializeProgress
    \/ UpdatePolicy
    \/ Tick
    \/ Submit
    \/ Execute
    \/ Confirm

SetupSpec == SetupInit /\ [][SetupNext]_vars

(***************************************************************************)
(* Properties                                                              *)
(***************************************************************************)
\* The step in which the ledger runs the submitted transaction.
ExecutesCall == pc = "submitted" /\ pc' = "executed"

SumOf(amounts) == amounts["alice"] + amounts["bob"] + amounts["carol"]

\* Page events among the events of the executed transaction.
PagesPaidInCall ==
    Cardinality({k \in 1..Len(events) : events[k].type = "InvestorPayoutPage"})

StrictlyIncreasingIndexes(pages) ==
    \A j \in 1..Len(pages), k \in 1..Len(pages) :
        j < k => pages[j].page_index < pages[k].page_index

\* C1: a distribute call whose claim yields a nonzero base amount fails with
\* BaseFeeDetected and commits nothing: Progress, the policy, the treasury and
\* every investor and creator balance stay as they were and the call emits no
\* event, whatever its pages and its is_final_page flag.
CurrencyGuard ==
    [][ (ExecutesCall /\ claimed'.base > 0)
            => /\ result' = "BaseFeeDetected"
               /\ UNCHANGED ledger
               /\ events' = <<>> ]_vars

CurrencyGuardWitness ==
    pc = "executed" /\ result = "BaseFeeDetected" /\ claimed.base > 0

\* C2: what has left the treasury (investor payouts plus creator payouts)
\* never exceeds what was claimed into it, the treasury balance is never
\* negative, and within each call the investor payouts plus the creator
\* remainder are at most the quote amount claimed in that call.
NoOverpay ==
    [][ /\ treasury' >= 0
        /\ SumOf(balances') + creator' <= claimedTotal'
        /\ ExecutesCall =>
             (SumOf(balances') - SumOf(balances)) + (creator' - creator)
                 <= claimed'.quote ]_vars

NoOverpayWitness ==
    /\ pc = "executed" /\ result = "Ok"
    /\ claimed.quote > 0 /\ creator > 0 /\ SumOf(balances) > 0

\* C3 (as amended): within an open day, a call that gets past the claim with
\* a nonzero quote amount and no base amount and resubmits a page whose index
\* is below the persisted cursor fails with InvalidPaginationState; and the
\* pages paid in a day have strictly increasing indexes, so that no page
\* index is paid twice in a day.
ReplayRejected ==
    [][ /\ (/\ ExecutesCall
            /\ ~progress.day_finalized_flag
            /\ replayed'
            /\ claimed'.base = 0
            /\ claimed'.quote > 0) => result' = "InvalidPaginationState"
        /\ StrictlyIncreasingIndexes(day'.pages) ]_vars

ReplayRejectedWitness ==
    /\ pc = "executed" /\ replayed /\ result = "InvalidPaginationState"
    /\ claimed.quote > 0 /\ claimed.base = 0

\* C3 (as stated): within an open day, a call that resubmits a page whose
\* index is below the persisted cursor fails with InvalidPaginationState for
\* every claimed quote amount, zero included, and no page index is paid
\* twice in a day.
ReplayRejectedForEveryClaim ==
    [][ /\ (/\ ExecutesCall
            /\ ~progress.day_finalized_flag
            /\ replayed'
            /\ claimed'.base = 0) => result' = "InvalidPaginationState"
        /\ StrictlyIncreasingIndexes(day'.pages) ]_vars

\* C4: for a finalized day, what the investors were paid during the day plus
\* what the creator was paid plus the day's increase of carry_over_lamports
\* equals the quote amount claimed over all calls of the day.
Conservation ==
    progress.day_finalized_flag =>
        SumOf(day.paid) + day.creator
            + (progress.carry_over_lamports - day.carry_start) = day.claimed

\* C5: after a day was finalized, a call at a time of a later day index and
\* at least 86400 after last_distribution_ts is not turned away by the day
\* gates: it opens the new day and goes on to the claim.
FinalizedDayReopens ==
    [][ (/\ ExecutesCall
         /\ progress.day_finalized_flag
         /\ DayIndex(now) > progress.day_epoch
         /\ now - progress.last_distribution_ts >= SecondsPerDay)
            => /\ result' \notin {"DayAlreadyFinalized", "DayGateNotPassed"}
               /\ result' = "Ok" => progress'.day_epoch = DayIndex(now) ]_vars

\* C6: a day whose pages were submitted over several calls, the last one
\* final, ends with the same payout for every investor, the same creator
\* payout and the same increase of carry_over_lamports as one final call that
\* submits all the day's pages with the day's claimed quote amount.
SplitEquivalence ==
    (/\ progress.day_finalized_flag
     /\ progress.day_epoch = DayIndex(StartTime)
     /\ day.calls >= 2
     /\ day.ignored = 0)
        => \E one \in {Handler(InitialProgress(StartTime), policy, 0,
                               [i \in Investors |-> 0], 0,
                               progress.last_distribution_ts,
                               day.pages, TRUE, day.claimed, 0)} :
              /\ one.err = "Ok"
              /\ \A i \in Investors : one.balances[i] = day.paid[i]
              /\ one.creator = day.creator
              /\ one.progress.carry_over_lamports
                     = progress.carry_over_lamports - day.carry_start

\* C7: when daily_cap_quote_lamports > 0, cumulative_distributed_today never
\* exceeds it in a committed state.
CapEnforced ==
    policy.daily_cap_quote_lamports > 0 =>
        progress.cumulative_distributed_today <= policy.daily_cap_quote_lamports

CapEnforcedWitness ==
    /\ pc = "executed" /\ result = "Ok"
    /\ policy.daily_cap_quote_lamports > 0
    /\ progress.cumulative_distributed_today = policy.daily_cap_quote_lamports

\* C8 (as amended): between two committed states with the same day index
\* pagination_cursor never decreases, except that the call that finalizes the
\* day sets it to zero; it returns to zero only when a call opens a new day
\* or finalizes the day.
CursorMonotonic ==
    [][ /\ progress'.day_epoch = progress.day_epoch =>
             \/ progress'.pagination_cursor >= progress.pagination_cursor
             \/ /\ progress'.pagination_cursor = 0
                /\ progress'.day_finalized_flag
                /\ ~progress.day_finalized_flag
        /\ (progress.pagination_cursor > 0 /\ progress'.pagination_cursor = 0) =>
             \/ progress'.day_epoch > progress.day_epoch
             \/ progress'.day_finalized_flag /\ ~progress.day_finalized_flag ]_vars

\* The finalizing call found pages of earlier calls of the day consumed.
CursorMonotonicWitness ==
    /\ pc = "executed" /\ result = "Ok"
    /\ progress.day_finalized_flag
    /\ progress.pagination_cursor = 0
    /\ progress.pages_processed_today > PagesPaidInCall

\* C8 (as stated): between two committed states with the same day index
\* pagination_cursor never decreases, and it returns to zero only when a call
\* opens a new day.
CursorResetsOnlyOnNewDay ==
    [][ /\ progress'.day_epoch = progress.day_epoch =>
             progress'.pagination_cursor >= progress.pagination_cursor
        /\ (progress.pagination_cursor > 0 /\ progress'.pagination_cursor = 0) =>
             progress'.day_epoch > progress.day_epoch ]_vars

\* C9: a call made while day_finalized_flag is set for the current day index
\* fails with DayAlreadyFinalized and changes nothing: no claim, no event, no
\* payout, Progress as before.
FinalizedDayRejects ==
    [][ (/\ ExecutesCall
         /\ progress.day_finalized_flag
         /\ DayIndex(now) = progress.day_epoch)
            => /\ result' = "DayAlreadyFinalized"
               /\ claimed' = NoClaim
               /\ events' = <<>>
               /\ UNCHANGED <<ledger, claimedTotal>> ]_vars

FinalizedDayRejectsWitness ==
    /\ pc = "executed" /\ result = "DayAlreadyFinalized"
    /\ DayIndex(now) = progress.day_epoch

\* C10: a call that would open a new day while last_distribution_ts # 0 and
\* less than 86400 has passed since it fails with DayGateNotPassed and leaves
\* Progress unchanged; a new day is opened only if last_distribution_ts = 0
\* or at least 86400 has passed since it.
DayGateEnforced ==
    [][ ExecutesCall =>
          /\ (/\ IsNewDay(progress, now)
              /\ progress.last_distribution_ts # 0
              /\ now - progress.last_distribution_ts < SecondsPerDay)
                 => result' = "DayGateNotPassed" /\ progress' = progress
          /\ progress'.day_epoch # progress.day_epoch =>
                 CanStartNewDay(progress, now) ]_vars

\* The executing call passes the day gate and its claim yields a nonzero quote
\* amount and no base amount: it goes on to the page validation.
ReachesValidation ==
    /\ ExecutesCall
    /\ DayGate(progress, now).err = "Ok"
    /\ claimed'.base = 0
    /\ claimed'.quote > 0

\* The executing call passes the day gate and its claim yields nothing.
ClaimsNothing ==
    /\ ExecutesCall
    /\ DayGate(progress, now).err = "Ok"
    /\ claimed' = NoClaim

\* The pagination_cursor the page validation starts from: the persisted one,
\* or zero when the call opens a new day.
CursorAfterGate == DayGate(progress, now).p.pagination_cursor

\* C11 (as amended): a call that submits a page whose declared page_hash
\* differs from the recomputed one fails and commits nothing (Progress, the
\* treasury and all balances unchanged, no event), unless its claim yields
\* nothing; when the call passes the day gate and claims a nonzero quote
\* amount and no base amount, the error is InvalidPaginationState, whether
\* or not the call is marked final.
HashMismatchRejected ==
    [][ (ExecutesCall /\ HashMismatch(tx.pages)) =>
          /\ ~ClaimsNothing =>
                /\ result' # "Ok"
                /\ UNCHANGED ledger
                /\ events' = <<>>
          /\ ReachesValidation => result' = "InvalidPaginationState" ]_vars

HashMismatchRejectedWitness ==
    /\ pc = "executed" /\ result = "InvalidPaginationState"
    /\ call.hash_mismatch /\ ~call.index_mismatch
    /\ claimed.quote > 0 /\ claimed.base = 0

\* C11 (as stated): every call that submits a page whose declared page_hash
\* differs from the recomputed one fails and leaves Progress unchanged,
\* whatever amount was claimed and whether or not the call is marked final,
\* and once past the day gate and the currency guard the error is
\* InvalidPaginationState.
HashMismatchRejectedForEveryClaim ==
    [][ (ExecutesCall /\ HashMismatch(tx.pages)) =>
          /\ result' # "Ok"
          /\ progress' = progress
          /\ (DayGate(progress, now).err = "Ok" /\ claimed'.base = 0)
                 => result' = "InvalidPaginationState" ]_vars

\* C12 (as amended): a call that passes the day gate and claims a nonzero
\* quote amount and no base amount, in which some page j (from 0) does not
\* have page_index = cursor + j, fails with InvalidPaginationState and
\* commits nothing, where cursor is the pagination_cursor after the day gate:
\* the persisted one, or zero when the call opens a new day.
PagesContiguous ==
    [][ (ReachesValidation /\ IndexMismatch(tx.pages, CursorAfterGate)) =>
          /\ result' = "InvalidPaginationState"
          /\ UNCHANGED ledger
          /\ events' = <<>> ]_vars

\* A two-page call at the cursor whose second page is not the next one.
PagesContiguousWitness ==
    /\ pc = "executed" /\ result = "InvalidPaginationState"
    /\ call.index_mismatch /\ ~call.hash_mismatch
    /\ call.npages = 2 /\ ~replayed
    /\ claimed.quote > 0 /\ claimed.base = 0

\* C12 (as stated): a call past the day gate and the currency guard in which
\* some page j does not have page_index = cursor + j, cursor being the
\* persisted pagination_cursor at call start, fails with
\* InvalidPaginationState.
PagesContiguousFromPersistedCursor ==
    [][ (/\ ExecutesCall
         /\ DayGate(progress, now).err = "Ok"
         /\ claimed'.base = 0
         /\ IndexMismatch(tx.pages, progress.pagination_cursor))
            => result' = "InvalidPaginationState" ]_vars

\* C13: in every committed state of a day whose investor pool target has been
\* set (pages_processed_today > 0), cumulative_distributed_today is at most
\* day_investor_pool_target.
WithinTarget ==
    progress.pages_processed_today > 0 =>
        progress.cumulative_distributed_today <= progress.day_investor_pool_target

\* A day whose payouts have used up the target.
WithinTargetWitness ==
    /\ pc = "executed" /\ result = "Ok"
    /\ progress.pages_processed_today > 0
    /\ progress.day_investor_pool_target > 0
    /\ progress.cumulative_distributed_today = progress.day_investor_pool_target

\* C14: carry_over_lamports never decreases from one committed state to the
\* next, within a day, across the reset that opens a new day and across
\* finalization, and so is never reset to zero.
CarryOverMonotonic ==
    [][ progress'.carry_over_lamports >= progress.carry_over_lamports ]_vars

\* A new day was opened with dust carried over from the day before.
CarryOverMonotonicWitness ==
    /\ pc = "executed" /\ result = "Ok"
    /\ progress.day_epoch > DayIndex(StartTime)
    /\ day.carry_start > 0
    /\ progress.carry_over_lamports >= day.carry_start

\* C15: for every day a call has opened, day_finalized_flag goes from false
\* to true exactly once: a finalized day is not finalized again (calls on it
\* commit nothing), the flag does not return to false while the day index is
\* unchanged, and when a later day is opened the day before it had been
\* finalized.
FinalizedExactlyOnce ==
    [][ /\ (progress.day_finalized_flag
               /\ progress'.day_epoch = progress.day_epoch)
              => /\ progress'.day_finalized_flag
                 /\ ExecutesCall => result' # "Ok"
        /\ (day.calls > 0 /\ progress'.day_epoch > progress.day_epoch)
              => progress.day_finalized_flag ]_vars

\* C16: a call that opens a new day resets cumulative_distributed_today,
\* pagination_cursor, pages_processed_today, day_total_locked,
\* day_investor_pool_target, day_investor_distributed and
\* day_creator_remainder_target to zero, sets day_epoch to floor(now/86400)
\* and leaves carry_over_lamports and last_distribution_ts as they were: the
\* progress the rest of the handler starts from is such, a committed opening
\* call has the new day index, and one that does nothing else (zero claim,
\* not final) commits exactly the reset values.
NewDayResets ==
    [][ (/\ ExecutesCall
         /\ DayGate(progress, now).err = "Ok"
         /\ IsNewDay(progress, now))
          => /\ \E p \in {DayGate(progress, now).p} :
                   /\ p.day_epoch = now \div 86400
                   /\ p.cumulative_distributed_today = 0
                   /\ p.pagination_cursor = 0
                   /\ p.pages_processed_today = 0
                   /\ p.day_total_locked = 0
                   /\ p.day_investor_pool_target = 0
                   /\ p.day_investor_distributed = 0
                   /\ p.day_creator_remainder_target = 0
                   /\ p.carry_over_lamports = progress.carry_over_lamports
                   /\ p.last_distribution_ts = progress.last_distribution_ts
             /\ result' = "Ok" => progress'.day_epoch = now \div 86400
             /\ (result' = "Ok" /\ ClaimsNothing /\ ~tx.is_final_page)
                   => /\ progress'.cumulative_distributed_today = 0
                      /\ progress'.pagination_cursor = 0
                      /\ progress'.pages_processed_today = 0
                      /\ progress'.day_total_locked = 0
                      /\ progress'.day_investor_pool_target = 0
                      /\ progress'.day_investor_distributed = 0
                      /\ progress'.day_creator_remainder_target = 0
                      /\ progress'.carry_over_lamports
                             = progress.carry_over_lamports
                      /\ progress'.last_distribution_ts
                             = progress.last_distribution_ts ]_vars

\* A later day opened by a call that claimed nothing, after a day with
\* payouts, consumed pages and dust.
NewDayResetsWitness ==
    /\ pc = "executed" /\ result = "Ok"
    /\ claimed = NoClaim /\ ~call.is_final_page
    /\ progress.day_epoch > DayIndex(StartTime)
    /\ day.calls = 1
    /\ SumOf(balances) > 0
    /\ progress.carry_over_lamports > 0
    /\ progress.cumulative_distributed_today = 0
    /\ progress.pagination_cursor = 0

\* The per-day totals and targets of Progress that a zero claim leaves alone.
DayTotals(p) ==
    <<p.cumulative_distributed_today, p.day_total_locked,
      p.day_investor_pool_target, p.day_investor_distributed,
      p.day_creator_remainder_target>>

\* C17 (as amended): a call past the day gate whose claim yields zero quote
\* and zero base succeeds without any transfer (investor balances, creator
\* balance and treasury unchanged, no page or day-closed payout);
\* carry_over_lamports is unchanged; cumulative_distributed_today and the
\* per-day targets are unchanged, except that they are zero when the call
\* opens a new day; and the call leaves the day finalized if and only if
\* is_final_page is true.
ZeroClaimReturns ==
    [][ ClaimsNothing =>
          /\ result' = "Ok"
          /\ UNCHANGED <<treasury, balances, creator>>
          /\ PagesPaidInCall' = 0
          /\ progress'.carry_over_lamports = progress.carry_over_lamports
          /\ DayTotals(progress') = IF IsNewDay(progress, now)
                                    THEN <<0, 0, 0, 0, 0>>
                                    ELSE DayTotals(progress)
          /\ progress'.day_finalized_flag <=> tx.is_final_page ]_vars

\* A final call that claims nothing closes a day in which investors were paid.
ZeroClaimReturnsWitness ==
    /\ pc = "executed" /\ result = "Ok"
    /\ claimed = NoClaim /\ call.is_final_page /\ call.npages > 0
    /\ progress.day_finalized_flag
    /\ progress.cumulative_distributed_today > 0
    /\ creator = 0

\* C17 (as stated): a call whose claim yields zero quote and zero base makes
\* no transfer, leaves cumulative_distributed_today, carry_over_lamports and
\* the per-day targets unchanged, and finalizes the day if and only if
\* is_final_page is true.
ZeroClaimChangesNoTotals ==
    [][ ClaimsNothing =>
          /\ result' = "Ok"
          /\ UNCHANGED <<treasury, balances, creator>>
          /\ progress'.carry_over_lamports = progress.carry_over_lamports
          /\ DayTotals(progress') = DayTotals(progress)
          /\ progress'.day_finalized_flag <=> tx.is_final_page ]_vars

\* C18: at finalization the creator has been paid exactly
\* max(0, D - cumulative_distributed_today - carry_over_lamports), D being
\* the quote amount claimed over all calls of the finalized day; nothing is
\* transferred to the creator when that value is zero.
CreatorRemainderOfDay ==
    progress.day_finalized_flag =>
        day.creator =
            SaturatingSub(SaturatingSub(day.claimed,
                                        progress.cumulative_distributed_today),
                          progress.carry_over_lamports)

\* C19: once the setup operations have created the policy, the position
\* owner and the progress accounts (with any number of update_policy calls),
\* y0_total_allocation of the policy is greater than zero, so that a
\* distribute call that claims a nonzero quote amount is not bound to fail
\* with InvalidY0.
Y0Positive ==
    ProgramAccounts \subseteq accounts => policy.y0_total_allocation > 0

\* C20 (as amended): a successful call that claims a nonzero quote amount and
\* submits k pages leaves pagination_cursor, as it stands before the
\* finalization reset of the same call, equal to the cursor after the day
\* gate (the persisted one, or zero when the call opens a new day) plus k: a
\* call that is not final commits that value, a final call records it as
\* total_pages_expected and commits zero.  A successful call that claims
\* nothing consumes no page: not final, it commits the cursor after the day
\* gate.  A call that fails leaves the cursor unchanged.
CursorAdvancesByPages ==
    [][ ExecutesCall =>
          /\ result' # "Ok" =>
                progress'.pagination_cursor = progress.pagination_cursor
          /\ (result' = "Ok" /\ claimed'.quote > 0 /\ ~tx.is_final_page) =>
                progress'.pagination_cursor = CursorAfterGate + Len(tx.pages)
          /\ (result' = "Ok" /\ claimed'.quote > 0 /\ tx.is_final_page) =>
                /\ progress'.total_pages_expected
                       = CursorAfterGate + Len(tx.pages)
                /\ progress'.pagination_cursor = 0
          /\ (result' = "Ok" /\ claimed'.quote = 0 /\ ~tx.is_final_page) =>
                progress'.pagination_cursor = CursorAfterGate ]_vars

\* A call that consumed two pages.
CursorAdvancesByPagesWitness ==
    /\ pc = "executed" /\ result = "Ok"
    /\ call.npages = 2 /\ ~call.is_final_page
    /\ claimed.quote > 0
    /\ progress.pagination_cursor = 2

\* C20 (as stated): every successful call that submits k pages leaves
\* pagination_cursor, before any finalization reset of the same call, equal
\* to its value at call start plus k; a call that fails leaves it unchanged.
CursorAdvancesFromCallStart ==
    [][ ExecutesCall =>
          /\ result' # "Ok" =>
                progress'.pagination_cursor = progress.pagination_cursor
          /\ (result' = "Ok" /\ ~tx.is_final_page) =>
                progress'.pagination_cursor
                    = progress.pagination_cursor + Len(tx.pages) ]_vars

\* C21: a day that a call has opened and that is not finalized is never
\* overwritten by the opening of a new day: while it is not finalized its day
\* index stays, and its cursor and running totals are not zeroed.
OpenDayNotOverwritten ==
    [][ (/\ day.calls > 0
         /\ ~progress.day_finalized_flag
         /\ ~progress'.day_finalized_flag)
            => /\ progress'.day_epoch = progress.day_epoch
               /\ progress'.pagination_cursor >= progress.pagination_cursor
               /\ progress'.cumulative_distributed_today
                      >= progress.cumulative_distributed_today
               /\ progress'.pages_processed_today
                      >= progress.pages_processed_today ]_vars

KeptByFinalization(p) ==
    <<p.carry_over_lamports, p.cumulative_distributed_today, p.day_epoch,
      p.day_total_locked, p.day_investor_pool_target,
      p.day_investor_distributed, p.day_creator_remainder_target>>

\* C23: finalization sets day_finalized_flag, sets last_distribution_ts to
\* the current time and pagination_cursor to zero, and leaves
\* carry_over_lamports, cumulative_distributed_today, day_epoch and the
\* per-day targets as they are: a successful final call commits these fields
\* with the values the same call commits when it is not marked final.
FinalizationFrame ==
    [][ (ExecutesCall /\ tx.is_final_page /\ result' = "Ok") =>
          /\ progress'.day_finalized_flag
          /\ progress'.last_distribution_ts = now
          /\ progress'.pagination_cursor = 0
          /\ \E open \in {Handler(progress, policy, treasury, balances, creator,
                                   now, tx.pages, FALSE,
                                   claimed'.quote, claimed'.base)} :
                /\ open.err = "Ok"
                /\ ~open.progress.day_finalized_flag
                /\ KeptByFinalization(progress')
                       = KeptByFinalization(open.progress) ]_vars

\* A day finalized with payouts made and dust carried over.
FinalizationFrameWitness ==
    /\ pc = "executed" /\ result = "Ok" /\ call.is_final_page
    /\ progress.day_finalized_flag
    /\ progress.last_distribution_ts = now
    /\ progress.pagination_cursor = 0
    /\ progress.cumulative_distributed_today > 0
    /\ progress.carry_over_lamports > 0
    /\ progress.day_investor_pool_target > 0

\* The three per-day targets of Progress.
DayTargets(p) ==
    <<p.day_total_locked, p.day_investor_pool_target,
      p.day_creator_remainder_target>>

\* The progress the call's claim and page processing start from.
ProgressAfterGate == DayGate(progress, now).p

\* The investor pool of the executing call: the claimed quote amount times
\* the eligible share of the locked total of the call's pages, capped.
CappedInvestorFeeQuote(total_locked) ==
    ApplyDailyCap(
        CalculateInvestorFeeQuote(claimed'.quote,
            CalculateEligibleBps(total_locked, policy.y0_total_allocation,
                                 policy.investor_fee_share_bps).val),
        policy.daily_cap_quote_lamports,
        ProgressAfterGate.cumulative_distributed_today)

\* C24: a successful call with a nonzero claim that processes pages while
\* pages_processed_today = 0 sets day_total_locked to the total locked,
\* day_investor_pool_target to the capped investor pool and
\* day_creator_remainder_target to the claimed amount less that pool; once
\* pages_processed_today > 0, no call of the same day changes the three.
TargetsFrozen ==
    [][ ExecutesCall =>
          /\ (/\ result' = "Ok"
              /\ claimed'.quote > 0
              /\ Len(tx.pages) > 0
              /\ ProgressAfterGate.pages_processed_today = 0)
                => \E total_locked \in
                       {CalculateTotalLockedFromStreamflow(tx.pages).val} :
                     DayTargets(progress') =
                       <<total_locked,
                         CappedInvestorFeeQuote(total_locked),
                         SaturatingSub(claimed'.quote,
                                       CappedInvestorFeeQuote(total_locked))>>
          /\ (/\ progress.pages_processed_today > 0
              /\ progress'.day_epoch = progress.day_epoch)
                => DayTargets(progress') = DayTargets(progress) ]_vars

\* The second paying call of a day, whose pages lock another total than the
\* pages of the first.
TargetsFrozenWitness ==
    /\ pc = "executed" /\ result = "Ok"
    /\ claimed.quote > 0 /\ call.npages = 1
    /\ day.calls = 2
    /\ progress.pages_processed_today = 2
    /\ progress.day_investor_pool_target > 0
    /\ progress.day_total_locked
           # CalculateTotalLockedFromStreamflow(
                 <<day.pages[2]>>).val

\* What investor i is paid for the entries from position k on, when every
\* holder is paid floor(locked * pool / total_locked), holders with nothing
\* locked or with a payout below min_payout_lamports being paid nothing.
RECURSIVE ProRataPaid(_, _, _, _, _)
ProRataPaid(entries, k, i, pool, total_locked) ==
    IF k > Len(entries) THEN 0
    ELSE LET locked == CalculateLockedAmount(StreamAccount(entries[k].stream)).val
             payout == (locked * pool) \div total_locked
         IN  (IF /\ entries[k].investor = i
                 /\ locked > 0
                 /\ payout >= policy.min_payout_lamports
              THEN payout ELSE 0)
             + ProRataPaid(entries, k + 1, i, pool, total_locked)

\* C25: in every successful call with a nonzero claim, each holder of the
\* call's pages is paid floor(locked_i * day_investor_pool_target /
\* day_total_locked), pool and denominator being the values frozen at the
\* day's first pages.
PaidFromFrozenTargets ==
    [][ (/\ ExecutesCall
         /\ result' = "Ok"
         /\ claimed'.quote > 0
         /\ progress'.day_total_locked > 0)
            => \A i \in Investors :
                 balances'[i] - balances[i] =
                   ProRataPaid(AllInvestors(tx.pages, 1), 1, i,
                               progress'.day_investor_pool_target,
                               progress'.day_total_locked) ]_vars

\* The payouts below min_payout_lamports among the entries from position k
\* on, every holder's payout being floor(locked * pool / total_locked).
RECURSIVE ProRataDust(_, _, _, _)
ProRataDust(entries, k, pool, total_locked) ==
    IF k > Len(entries) THEN 0
    ELSE LET locked == CalculateLockedAmount(StreamAccount(entries[k].stream)).val
             payout == (locked * pool) \div total_locked
         IN  (IF locked > 0 /\ payout < policy.min_payout_lamports
              THEN payout ELSE 0)
             + ProRataDust(entries, k + 1, pool, total_locked)

\* C26: in a successful call, a holder whose computed payout is below
\* min_payout_lamports receives no transfer (each holder receives exactly
\* the payouts at or above the threshold), carry_over_lamports grows by
\* exactly the sum of the computed payouts below the threshold, and
\* cumulative_distributed_today grows by exactly the sum transferred to the
\* holders.
DustCarried ==
    [][ (ExecutesCall /\ result' = "Ok") =>
          /\ progress'.cumulative_distributed_today
                 - ProgressAfterGate.cumulative_distributed_today
                 = SumOf(balances') - SumOf(balances)
          /\ claimed'.quote = 0 =>
                /\ progress'.carry_over_lamports = progress.carry_over_lamports
                /\ balances' = balances
          /\ claimed'.quote > 0 =>
                \E total_locked \in
                    {CalculateTotalLockedFromStreamflow(tx.pages).val} :
                  /\ progress'.carry_over_lamports
                         - progress.carry_over_lamports
                         = ProRataDust(AllInvestors(tx.pages, 1), 1,
                               CappedInvestorFeeQuote(total_locked),
                               total_locked)
                  /\ \A i \in Investors :
                        balances'[i] - balances[i] =
                          ProRataPaid(AllInvestors(tx.pages, 1), 1, i,
                              CappedInvestorFeeQuote(total_locked),
                              total_locked) ]_vars

\* A call that paid one holder and carried another holder's payout over.
DustCarriedWitness ==
    /\ pc = "executed" /\ result = "Ok"
    /\ claimed.quote > 0 /\ call.npages = 1
    /\ day.calls = 1
    /\ progress.carry_over_lamports > 0
    /\ progress.cumulative_distributed_today > 0
    /\ \E i \in Investors : balances[i] = 0 /\ day.pages[1].investors[2].investor = i

\* C27: a call with a nonzero claim that submits one page with an empty
\* holder list, at the cursor and with a matching hash, succeeds, pays
\* nobody and advances the cursor by one (Y0 being set).
EmptyPageAccepted ==
    [][ (/\ ReachesValidation
         /\ policy.y0_total_allocation > 0
         /\ Len(tx.pages) = 1
         /\ tx.pages[1].investors = <<>>
         /\ ~HashMismatch(tx.pages)
         /\ ~IndexMismatch(tx.pages, CursorAfterGate))
            => /\ result' = "Ok"
               /\ balances' = balances
               /\ ~tx.is_final_page =>
                     progress'.pagination_cursor = CursorAfterGate + 1 ]_vars

\* The executing call reaches the lock accounting: it reaches the page
\* validation and its pages pass it.
ReachesLockAccounting ==
    /\ ReachesValidation
    /\ ~HashMismatch(tx.pages)
    /\ ~IndexMismatch(tx.pages, CursorAfterGate)

\* Some holder listed in the pages is not the recipient of its stream.
OwnerMismatch(pages) ==
    \E k \in 1..Len(pages) : \E j \in 1..Len(pages[k].investors) :
        StreamAccount(pages[k].investors[j].stream).recipient
            # pages[k].investors[j].investor

\* Some listed stream has withdrawn more than was deposited.
CorruptRecord(pages) ==
    \E k \in 1..Len(pages) : \E j \in 1..Len(pages[k].investors) :
        StreamAccount(pages[k].investors[j].stream).withdrawn
            > StreamAccount(pages[k].investors[j].stream).deposited

PageEvents(evs) == SelectSeq(evs, LAMBDA e : e.type = "InvestorPayoutPage")

\* Every stream that lists investor i in the pages has nothing locked.
NothingLockedFor(i, pages) ==
    \A k \in 1..Len(pages) : \A j \in 1..Len(pages[k].investors) :
        pages[k].investors[j].investor = i =>
            CalculateLockedAmount(
                StreamAccount(pages[k].investors[j].stream)).val = 0

\* C29: in a successful call with a nonzero claim, a holder with nothing
\* locked receives no transfer and adds nothing to carry_over_lamports, and
\* is still counted: each page's event reports as processed the number of
\* holders listed in the page, and the cursor advances by the number of
\* pages.
ZeroLockedCounted ==
    [][ (ExecutesCall /\ result' = "Ok" /\ claimed'.quote > 0) =>
          /\ \A i \in Investors :
                NothingLockedFor(i, tx.pages) => balances'[i] = balances[i]
          /\ \E total_locked \in
                  {CalculateTotalLockedFromStreamflow(tx.pages).val} :
                progress'.carry_over_lamports - progress.carry_over_lamports
                    = ProRataDust(AllInvestors(tx.pages, 1), 1,
                          CappedInvestorFeeQuote(total_locked), total_locked)
          /\ Len(PageEvents(events')) = Len(tx.pages)
          /\ \A k \in 1..Len(tx.pages) :
                PageEvents(events')[k].investors_processed
                    = Len(tx.pages[k].investors)
          /\ progress'.pages_processed_today
                 = ProgressAfterGate.pages_processed_today + Len(tx.pages)
          /\ ~tx.is_final_page =>
                progress'.pagination_cursor
                    = CursorAfterGate + Len(tx.pages) ]_vars

\* A page of two holders, one of them with nothing locked, was processed.
ZeroLockedCountedWitness ==
    /\ pc = "executed" /\ result = "Ok"
    /\ claimed.quote > 0 /\ call.npages = 1 /\ ~call.is_final_page
    /\ day.calls = 1
    /\ Len(PageEvents(events)) = 1
    /\ PageEvents(events)[1].investors_processed = 2
    /\ balances["carol"] = 0 /\ balances["alice"] > 0
    /\ day.pages[1].investors[2].investor = "carol"
    /\ NothingLockedFor("carol", day.pages)
    /\ progress.pagination_cursor = 1

\* The claim events among the events of a transaction.
ClaimEvents(evs) == SelectSeq(evs, LAMBDA e : e.type = "QuoteFeesClaimed")

\* C30: a successful distribute call makes exactly one claim and makes it
\* before any page or creator payout; what it claimed is in the treasury
\* before the payouts are drawn from it, so that the claimed amount is
\* accounted for by the treasury, the investors and the creator together,
\* and both holding accounts are empty when the call returns.
ClaimedOnceIntoTreasury ==
    [][(ExecutesCall /\ result' = "Ok") =>
          /\ Len(ClaimEvents(events')) = 1
          /\ events'[1].type = "QuoteFeesClaimed"
          /\ events'[1].claimed_quote = claimed'.quote
          /\ progress'.last_claimed_quote = claimed'.quote
          /\ treasury' + SumOf(balances') + creator'
                 = treasury + SumOf(balances) + creator + claimed'.quote
          /\ treasury' >= 0
          /\ temp = NoClaim
          /\ temp' = NoClaim]_vars

\* The first call there ever was found an empty treasury, claimed a nonzero
\* amount and paid investors out of it; the holding accounts are empty.
ClaimedOnceIntoTreasuryWitness ==
    /\ pc = "executed" /\ result = "Ok"
    /\ ncalls = 1 /\ claimed.quote > 0
    /\ Len(events) >= 2 /\ events[1].type = "QuoteFeesClaimed"
    /\ SumOf(balances) > 0
    /\ treasury + SumOf(balances) + creator = claimed.quote
    /\ temp = NoClaim

\* The day-closed events among the events of a transaction.
ClosedEvents(evs) == SelectSeq(evs, LAMBDA e : e.type = "CreatorPayoutDayClosed")

\* What holds of the events of every executed call apart from the number of
\* page events: a successful call emits one claim event, a day-closed event
\* exactly when it finalized the day, and nothing but claim, page and
\* day-closed events; a failed call emits nothing.
ClaimAndClosedEvents ==
    IF result = "Ok"
    THEN /\ Len(ClaimEvents(events)) = 1
         /\ Len(ClosedEvents(events)) = (IF progress.day_finalized_flag THEN 1 ELSE 0)
         /\ progress.day_finalized_flag = call.is_final_page
         /\ Len(events) = 1 + Len(PageEvents(events)) + Len(ClosedEvents(events))
    ELSE events = <<>>

\* C31 (as amended): every successful distribute call emits exactly one
\* fee-claim event and a day-closed event if and only if it finalized the
\* day; it emits one page-result event for each page it was given when it
\* claimed a nonzero quote amount and no page-result event when it claimed
\* nothing; a failed call emits no event.
EventsPerCall ==
    pc = "executed" =>
        /\ ClaimAndClosedEvents
        /\ result = "Ok" =>
               Len(PageEvents(events)) = (IF claimed.quote > 0 THEN call.npages ELSE 0)

\* A successful call that claimed, was given two pages and finalized the day.
EventsPerCallWitness ==
    /\ pc = "executed" /\ result = "Ok"
    /\ claimed.quote > 0 /\ call.npages = 2 /\ call.is_final_page
    /\ Len(PageEvents(events)) = 2
    /\ Len(ClosedEvents(events)) = 1
    /\ Len(events) = 4

\* C31 as stated: every successful call emits one page-result event for
\* each page it was given.
EventsForEveryPage ==
    pc = "executed" =>
        /\ ClaimAndClosedEvents
        /\ result = "Ok" => Len(PageEvents(events)) = call.npages

\* C32: the page-result event emitted for the k-th page of a successful call
\* carries the page_index of that page, the index that was validated
\* against the cursor.
EventCarriesPageIndex ==
    [][(ExecutesCall /\ result' = "Ok") =>
          \A k \in 1..Len(PageEvents(events')) :
              PageEvents(events')[k].page_index = tx.pages[k].page_index]_vars

\* C33: no value is silently truncated: when a successful call sets the day
\* targets, the 64-bit day_total_locked and day_investor_pool_target hold
\* the call's 128-bit locked total and capped investor pool themselves.
NarrowingChecked ==
    [][(/\ ExecutesCall /\ result' = "Ok" /\ claimed'.quote > 0
        /\ FirstPagesOfDay(ProgressAfterGate)) =>
          \E total_locked \in {CalculateTotalLockedFromStreamflow(tx.pages).val} :
              /\ progress'.day_total_locked = total_locked
              /\ progress'.day_investor_pool_target
                     = CappedInvestorFeeQuote(total_locked)]_vars

\* C34: in every committed state the treasury holds at least carry_over: the
\* dust recorded in carry_over_lamports is backed by funds in the treasury.
CarryBacked == treasury >= progress.carry_over_lamports

\* A day that a call finalized, paying the creator, with dust carried and
\* the treasury holding exactly the dust.
CarryBackedWitness ==
    /\ pc = "executed" /\ result = "Ok"
    /\ call.is_final_page /\ progress.day_finalized_flag
    /\ progress.carry_over_lamports > 0
    /\ creator > 0
    /\ treasury = progress.carry_over_lamports

\* C35: the stored day index never decreases, and after every successful
\* distribute call made at time t it equals floor(t / 86400); the clock of
\* the ledger never goes back.
DayIndexTracksClock ==
    [][/\ now' >= now
       /\ progress'.day_epoch >= progress.day_epoch
       /\ (ExecutesCall /\ result' = "Ok") =>
              progress'.day_epoch = DayIndex(now)]_vars

\* A second successful call, made on the day after the one the first call
\* opened, and not on a day boundary.
DayIndexTracksClockWitness ==
    /\ pc = "executed" /\ result = "Ok"
    /\ ncalls = 2
    /\ DayIndex(now) = 2
    /\ progress.day_epoch = 2
    /\ day.calls = 1

\* C36 (as amended): calculate_eligible_bps fails with InvalidY0 when Y0 = 0
\* and with LockedExceedsAllocation when total_locked > Y0; otherwise it
\* fails with Overflow when 10000 * total_locked does not fit in a u128,
\* and else returns min(fee_share_ceiling_bps, floor(10000 * total_locked /
\* Y0)), which never exceeds 10000.
EligibleBpsValue ==
    math.fn = "calculate_eligible_bps" =>
        \E total_locked \in {math.args[1]}, y0 \in {math.args[2]}, ceiling \in {math.args[3]} :
            IF y0 = 0 THEN math.ret = Err("InvalidY0")
            ELSE IF total_locked > y0 THEN math.ret = Err("LockedExceedsAllocation")
            ELSE IF total_locked * 10000 >= U128Modulus THEN math.ret = Err("Overflow")
            ELSE /\ math.ret = Ok(Min(ceiling, (10000 * total_locked) \div y0))
                 /\ math.ret.val <= 10000

\* The example of the unit test: 600 locked of 1000 under a ceiling of 9000.
EligibleBpsValueWitness ==
    /\ math.fn = "calculate_eligible_bps"
    /\ math.args = <<600, 1000, 9000>>
    /\ math.ret = Ok(6000)

\* C36 as stated: the minimum is returned for every Y0 > 0 and
\* total_locked <= Y0.
EligibleBpsForEveryLocked ==
    math.fn = "calculate_eligible_bps" =>
        \E total_locked \in {math.args[1]}, y0 \in {math.args[2]}, ceiling \in {math.args[3]} :
            IF y0 = 0 THEN math.ret = Err("InvalidY0")
            ELSE IF total_locked > y0 THEN math.ret = Err("LockedExceedsAllocation")
            ELSE /\ math.ret = Ok(Min(ceiling, (10000 * total_locked) \div y0))
                 /\ math.ret.val <= 10000

\* Every product locked_i * pool of the split is divisible by the total.
Divisible(locked, pool) ==
    \A k \in 1..Len(locked) : (locked[k] * pool) % SeqSum(locked) = 0

DailyCapValue ==
    math.fn = "apply_daily_cap" =>
        \E quote \in {math.args[1]}, cap \in {math.args[2]}, cumulative \in {math.args[3]} :
            /\ math.ret \in Nat
            /\ cap = 0 => math.ret = quote
            /\ (cap > 0 /\ cumulative >= cap) => math.ret = 0
            /\ (cap > 0 /\ cumulative < cap) =>
                   math.ret = (IF quote <= cap - cumulative
                               THEN quote ELSE cap - cumulative)

\* The example of the unit test: 900000 under a cap of 800000, nothing
\* distributed yet.
DailyCapValueWitness ==
    /\ math.fn = "apply_daily_cap"
    /\ math.args = <<900000, 800000, 0>>
    /\ math.ret = 800000

\* C39: the fee-share ceiling of the policy is at most 10000 after any
\* sequence of initialize_policy and update_policy operations, and an
\* operation that fails with InvalidFeeShareBps, as one given a value above
\* 10000 does, changes no field of the policy.
FeeShareCeiling ==
    [][/\ "policy" \in accounts' => policy'.investor_fee_share_bps <= 10000
       /\ result' = "InvalidFeeShareBps" => UNCHANGED <<policy, accounts>>]_vars

\* update_policy has set the policy's fields and a later update_policy was
\* refused.
FeeShareCeilingWitness ==
    /\ "policy" \in accounts
    /\ result = "InvalidFeeShareBps"
    /\ policy.investor_fee_share_bps = 5000
    /\ policy.daily_cap_quote_lamports = 8
    /\ policy.min_payout_lamports = 3

====
